---- MODULE Spec2Model ----
(***************************************************************************)
(* Model of src/src/App.tsx: the filename normalizer (processFileName),    *)
(* the upload pipeline (handleFiles / extractPDFsFromZip), the packaging   *)
(* of renamed files (downloadAllAsZip) and the list mutations (removeFile, *)
(* clearAll).                                                              *)
(*                                                                         *)
(* A string is a sequence of one-character strings.  A callback runs       *)
(* without interruption from its call or resumption to its next await, so  *)
(* each action of the pipeline is one such run.                            *)
(***************************************************************************)
EXTENDS Naturals, Sequences, FiniteSets, TLC

VARIABLES
    files,            \* useState<ProcessedFile[]>            (line 14)
    isProcessing,     \* useState(false)                      (line 16)
    isCreatingZip,    \* useState(false)                      (line 17)
    uploadedZipName,  \* useState<string>('')                 (line 18)
    runs,             \* the handleFiles invocations, by start order
    zipTask,          \* the downloadAllAsZip invocation and its effects
    nEdits,           \* number of removeFile / clearAll calls so far
    nFileName,        \* normalizer harness: the argument of processFileName
    nResult           \* normalizer harness: the value it returned

vars == <<files, isProcessing, isCreatingZip, uploadedZipName, runs, zipTask,
          nEdits, nFileName, nResult>>

----------------------------------------------------------------------------
(* Bounds *)

\* longest generated part of a filename given to the normalizer harness
MaxBody == 5
\* most inputs given to handleFiles in one behaviour, over all its calls
MaxInputs == 3
\* most calls of handleFiles, downloadAllAsZip, removeFile and clearAll in
\* one behaviour
MaxOps == 3

----------------------------------------------------------------------------
(* Strings *)

UpperChars == <<"A","B","C","D","E","F","G","H","I","J","K","L","M",
                "N","O","P","Q","R","S","T","U","V","W","X","Y","Z",
                "Ä","Ö","Ü">>
LowerChars == <<"a","b","c","d","e","f","g","h","i","j","k","l","m",
                "n","o","p","q","r","s","t","u","v","w","x","y","z",
                "ä","ö","ü">>

\* String.prototype.toLowerCase on one character
LowerChar(c) ==
    IF \E i \in 1..Len(UpperChars) : UpperChars[i] = c
    THEN LowerChars[CHOOSE i \in 1..Len(UpperChars) : UpperChars[i] = c]
    ELSE c

toLowerCase(s) == [i \in 1..Len(s) |-> LowerChar(s[i])]

endsWith(s, suffix) ==
    /\ Len(s) >= Len(suffix)
    /\ SubSeq(s, Len(s) - Len(suffix) + 1, Len(s)) = suffix

DotPdf == <<".", "p", "d", "f">>
DotZip == <<".", "z", "i", "p">>

\* s.replace(/\.EXT$/i, ''): an ignore-case match compares the characters
\* of the last four positions one by one with the pattern's
ReplaceExtIgnoreCase(s, ext) ==
    IF /\ Len(s) >= Len(ext)
       /\ \A i \in 1..Len(ext) :
            LowerChar(s[Len(s) - Len(ext) + i]) = LowerChar(ext[i])
    THEN SubSeq(s, 1, Len(s) - Len(ext))
    ELSE s

\* s.split(sep) for a one-character separator: always at least one part
RECURSIVE SplitFrom(_, _, _, _)
SplitFrom(s, sep, i, cur) ==
    IF i > Len(s) THEN <<cur>>
    ELSE IF s[i] = sep THEN <<cur>> \o SplitFrom(s, sep, i + 1, <<>>)
    ELSE SplitFrom(s, sep, i + 1, Append(cur, s[i]))

split(s, sep) == SplitFrom(s, sep, 1, <<>>)

\* parts.join(sep)
RECURSIVE join(_, _)
join(parts, sep) ==
    IF Len(parts) = 0 THEN <<>>
    ELSE IF Len(parts) = 1 THEN parts[1]
    ELSE parts[1] \o <<sep>> \o join(Tail(parts), sep)

\* a slice that keeps one element only
sliceOne(parts, n) == SubSeq(parts, n + 1, n + 1)

\* parts.slice(n): the elements from 0-based index n on
slice(parts, n) == SubSeq(parts, n + 1, Len(parts))

Digits == {"0","1","2","3","4","5","6","7","8","9"}

\* the character class [a-zA-ZäöüÄÖÜß]
WordChars ==
    {LowerChars[i] : i \in 1..26} \cup {UpperChars[i] : i \in 1..26}
        \cup {"ä","ö","ü","Ä","Ö","Ü","ß"}

\* /^\d+\)/.test(s)
RECURSIVE DigitsThenParen(_, _)
DigitsThenParen(s, i) ==
    IF i > Len(s) THEN FALSE
    ELSE IF s[i] \in Digits THEN DigitsThenParen(s, i + 1)
    ELSE i > 1 /\ s[i] = ")"

startsWithNumber(s) == DigitsThenParen(s, 1)

\* the test with the class [a-zA-Z]
startsWithAsciiWord(s) ==
    /\ Len(s) >= 1
    /\ s[1] \in {LowerChars[i] : i \in 1..26} \cup {UpperChars[i] : i \in 1..26}

\* /^[a-zA-ZäöüÄÖÜß]/.test(s)
startsWithWord(s) == Len(s) >= 1 /\ s[1] \in WordChars

----------------------------------------------------------------------------
(* processFileName *)

NoError == "undefined"
ErrTooFew == "Dateiname hat weniger als 4 Unterstriche"
ErrEmpty == "Kein gültiger Dateiname nach dem 4. Unterstrich gefunden"
ErrFormat == "Dateiname entspricht nicht dem erwarteten Format"

\* the test with a bound of 4 parts
tooFewPartsOffByOne(parts) == Len(parts) < 4

\* line 27
tooFewParts(parts) == Len(parts) < 5

processFileName(fileName) ==
    LET nameWithoutExt == ReplaceExtIgnoreCase(fileName, DotPdf)
        parts == split(nameWithoutExt, "_")
        actualFileName == join(slice(parts, 4), "_")
    IN  IF tooFewParts(parts)
        THEN [newName |-> fileName, error |-> ErrTooFew]
        ELSE IF actualFileName = <<>>
        THEN [newName |-> fileName, error |-> ErrEmpty]
        ELSE IF ~startsWithNumber(actualFileName) /\ ~startsWithWord(actualFileName)
        THEN [newName |-> fileName, error |-> ErrFormat]
        ELSE [newName |-> actualFileName \o DotPdf, error |-> NoError]

----------------------------------------------------------------------------
(* Files and archives *)

PdfType == "application/pdf"

Str_A_B_C_D_x_pdf == <<"A","_","B","_","C","_","D","_","x",".","p","d","f">>
Str_x_pdf == <<"x",".","p","d","f">>
Str_A_B_C_D_1z == <<"A","_","B","_","C","_","D","_","1",")","z">>
Str_n_txt == <<"n",".","t","x","t">>
Str_q_PDF == <<"q",".","P","D","F">>
Str_A_B_C_D_1z_pdf == <<"A","_","B","_","C","_","D","_","1",")","z",".","p","d","f">>
Str_dir == <<"d","/">>
Str_a_zip == <<"a",".","z","i","p">>
Str_B_ZIP == <<"B",".","Z","I","P">>
Str_c_zip == <<"c",".","z","i","p">>
Str_e_zip == <<"e",".","z","i","p">>
ZipType == "application/zip"

\* a File: its name, its declared type and its content (an opaque identity)
File(name, type, bytes) == [name |-> name, type |-> type, bytes |-> bytes]

LoosePdf == File(Str_A_B_C_D_x_pdf, "", 1)
LooseTyped == File(Str_A_B_C_D_1z, PdfType, 2)
LooseText == File(Str_n_txt, "text/plain", 3)
ZipGood == File(Str_a_zip, ZipType, 10)
ZipNoPdf == File(Str_B_ZIP, ZipType, 20)
ZipCorrupt == File(Str_c_zip, ZipType, 30)
ZipBadEntry == File(Str_e_zip, ZipType, 40)

Catalogue ==
    {LoosePdf, LooseTyped, LooseText,
     ZipGood, ZipNoPdf, ZipCorrupt, ZipBadEntry}

\* one entry of zipContent.files: name, dir flag, whether async('blob')
\* succeeds, and the content it yields
ZipObject(name, dir, ok, bytes) ==
    [name |-> name, dir |-> dir, ok |-> ok, bytes |-> bytes]

\* zip.loadAsync(zipFile): whether it resolves, and zipContent.files in the
\* order Object.entries enumerates it
loadAsync(bytes) ==
    CASE bytes = 10 ->
            [ok |-> TRUE,
             files |-> << ZipObject(Str_dir, TRUE, TRUE, 0),
                          ZipObject(Str_A_B_C_D_x_pdf, FALSE, TRUE, 11),
                          ZipObject(Str_n_txt, FALSE, TRUE, 12),
                          ZipObject(Str_x_pdf, FALSE, TRUE, 13) >>]
      [] bytes = 20 ->
            [ok |-> TRUE,
             files |-> << ZipObject(Str_n_txt, FALSE, FALSE, 21) >>]
      [] bytes = 40 ->
            [ok |-> TRUE,
             files |-> << ZipObject(Str_A_B_C_D_1z_pdf, FALSE, TRUE, 41),
                          ZipObject(Str_q_PDF, FALSE, FALSE, 42) >>]
      [] OTHER -> [ok |-> FALSE, files |-> <<>>]

\* every FileList of up to MaxInputs distinct files
RECURSIVE FileListsOfLen(_)
FileListsOfLen(n) ==
    IF n = 0 THEN {<<>>}
    ELSE {Append(l, f) : l \in FileListsOfLen(n - 1), f \in Catalogue}

IsInjective(l) == \A i, j \in 1..Len(l) : l[i] = l[j] => i = j

\* by length
FileLists ==
    [n \in 1..MaxInputs |-> {l \in FileListsOfLen(n) : IsInjective(l)}]

----------------------------------------------------------------------------
(* handleFiles and extractPDFsFromZip *)

ErrNoPdf == "Keine PDF-Dateien in der ZIP-Datei gefunden"
ErrZip == "ZIP-Datei konnte nicht verarbeitet werden"

ProcessedFile(originalFile, originalName, newName, status, errorMessage) ==
    [originalFile |-> originalFile, originalName |-> originalName,
     newName |-> newName, status |-> status, errorMessage |-> errorMessage]

\* an archive item whose new name is the archive's base name
ArchiveErrorBaseName(file, message) ==
    ProcessedFile(file, file.name, ReplaceExtIgnoreCase(file.name, DotZip),
                  "error", message)

\* lines 85-92 and 109-115: the item that stands for a whole archive
ArchiveError(file, message) ==
    ProcessedFile(file, file.name, file.name, "error", message)

\* lines 98-105 and 119-126: the item for one PDF
PdfItem(file) ==
    LET result == processFileName(file.name)
    IN  ProcessedFile(file, file.name, result.newName,
                      IF result.error # NoError THEN "error" ELSE "processed",
                      result.error)

isZipInput(file) == endsWith(toLowerCase(file.name), DotZip)

\* a test that takes every input that is no archive
isPdfInputAny(file) == TRUE

isPdfInput(file) ==
    file.type = PdfType \/ endsWith(toLowerCase(file.name), DotPdf)

\* a test that takes every file of the archive
isFileEntry(entry) == ~entry.dir

\* line 56: an entry extractPDFsFromZip reads
isPdfEntry(entry) == ~entry.dir /\ endsWith(toLowerCase(entry.name), DotPdf)

\* lines 55-61: the next entry from position k on that is read, or 0
NextPdfEntry(entries, k) ==
    IF \E j \in k..Len(entries) : isPdfEntry(entries[j])
    THEN CHOOSE j \in k..Len(entries) :
            /\ isPdfEntry(entries[j])
            /\ \A h \in k..(j - 1) : ~isPdfEntry(entries[h])
    ELSE 0

\* a name that is set once only
ZipBaseNameOnce(current, file) ==
    IF current # <<>> THEN current ELSE ReplaceExtIgnoreCase(file.name, DotZip)

\* lines 79-80: the value given to setUploadedZipName
ZipBaseName(current, file) == ReplaceExtIgnoreCase(file.name, DotZip)

\* an updater that puts the new items first
PrependProcessed(prev, processedFiles) == processedFiles \o prev

\* line 130: the updater given to setFiles
AppendProcessed(prev, processedFiles) == prev \o processedFiles

\* lines 96-106: one item per extracted PDF, in order
RECURSIVE ItemsOfPdfFiles(_)
ItemsOfPdfFiles(pdfFiles) ==
    IF pdfFiles = <<>> THEN <<>>
    ELSE <<PdfItem(Head(pdfFiles))>> \o ItemsOfPdfFiles(Tail(pdfFiles))

\* an extraction whose empty result is not checked
ItemsOfExtractionUnchecked(file, pdfFiles) == ItemsOfPdfFiles(pdfFiles)

\* lines 85-106: what a resolved extraction adds to processedFiles
ItemsOfExtraction(file, pdfFiles) ==
    IF Len(pdfFiles) = 0 THEN <<ArchiveError(file, ErrNoPdf)>>
    ELSE ItemsOfPdfFiles(pdfFiles)

\* lines 76-128: the loop from input i on, up to the next await (pc "load",
\* at an archive) or to the end of the list (pc "append")
RECURSIVE SyncLoop(_, _, _)
SyncLoop(fileList, i, processedFiles) ==
    IF i > Len(fileList)
    THEN [pc |-> "append", i |-> i, processedFiles |-> processedFiles]
    ELSE IF isZipInput(fileList[i])
    THEN [pc |-> "load", i |-> i, processedFiles |-> processedFiles]
    ELSE IF isPdfInput(fileList[i])
    THEN SyncLoop(fileList, i + 1, Append(processedFiles, PdfItem(fileList[i])))
    ELSE SyncLoop(fileList, i + 1, processedFiles)

----------------------------------------------------------------------------
(* State *)

\* one handleFiles invocation: where it is suspended and its local variables
Run(pc, fileList, i, processedFiles, entries, k, pdfFiles) ==
    [pc |-> pc, fileList |-> fileList, i |-> i,
     processedFiles |-> processedFiles,
     entries |-> entries, k |-> k, pdfFiles |-> pdfFiles]

\* the downloadAllAsZip invocation: where it is suspended, its local
\* variables, the state it closed over, and what the caller got from it
IdleZipTask ==
    [pc |-> "idle", calls |-> 0, ret |-> "none", files |-> <<>>,
     successfulFiles |-> <<>>, j |-> 0, zip |-> <<>>, zipName |-> <<>>, download |-> <<>>, alerts |-> 0]

NotRun == [newName |-> <<>>, error |-> "not run"]

Init ==
    /\ files = <<>>
    /\ isProcessing = FALSE
    /\ isCreatingZip = FALSE
    /\ uploadedZipName = <<>>
    /\ runs = <<>>
    /\ zipTask = IdleZipTask
    /\ nEdits = 0
    /\ nFileName = <<>>
    /\ nResult = NotRun

harnessVars == <<nFileName, nResult>>

\* the number of calls made so far
OpsSoFar == Len(runs) + zipTask.calls + nEdits

\* the number of inputs handleFiles was given so far
InputsSoFar ==
    LET S[n \in 0..Len(runs)] ==
            IF n = 0 THEN 0 ELSE S[n - 1] + Len(runs[n].fileList)
    IN  S[Len(runs)]
zipVars == <<isCreatingZip, zipTask>>

----------------------------------------------------------------------------
(* handleFiles, from its call or a resumption to its next await *)

\* the invocation after the loop ran on from input i
RunAfter(fileList, s) ==
    Run(IF s.pc = "append" THEN "done" ELSE "load", fileList, s.i,
        s.processedFiles, <<>>, 0, <<>>)

\* a loop that appends what it has each time it suspends
LoopEffectsEager(fileList, i, processedFiles, processing) ==
    LET s == SyncLoop(fileList, i, processedFiles)
    IN  IF s.pc = "load"
        THEN /\ uploadedZipName' = ZipBaseName(uploadedZipName, fileList[s.i])
             /\ files' = AppendProcessed(files, s.processedFiles)
             /\ isProcessing' = processing
        ELSE /\ uploadedZipName' = uploadedZipName
             /\ files' = AppendProcessed(files, s.processedFiles)
             /\ isProcessing' = FALSE

\* lines 76-134: the loop runs on from input i; at an archive it sets the
\* archive name and suspends in loadAsync, at the end it appends
LoopEffects(fileList, i, processedFiles, processing) ==
    LET s == SyncLoop(fileList, i, processedFiles)
    IN  IF s.pc = "load"
        THEN /\ uploadedZipName' = ZipBaseName(uploadedZipName, fileList[s.i])
             /\ files' = files
             /\ isProcessing' = processing
        ELSE /\ uploadedZipName' = uploadedZipName
             /\ files' = AppendProcessed(files, s.processedFiles)
             /\ isProcessing' = FALSE

\* lines 70-76: a call of handleFiles
HandleFiles(fileList) ==
    /\ OpsSoFar < MaxOps
    /\ runs' = Append(runs, RunAfter(fileList, SyncLoop(fileList, 1, <<>>)))
    /\ LoopEffects(fileList, 1, <<>>, TRUE)
    /\ UNCHANGED <<zipVars, nEdits, harnessVars>>

\* the loop goes on with the next input after input i gave `items`
NextInput(r, items) ==
    LET run == runs[r]
        processedFiles == run.processedFiles \o items
    IN  /\ runs' = [runs EXCEPT ![r] =
                RunAfter(run.fileList,
                         SyncLoop(run.fileList, run.i + 1, processedFiles))]
        /\ LoopEffects(run.fileList, run.i + 1, processedFiles, isProcessing)
        /\ UNCHANGED <<zipVars, nEdits, harnessVars>>

\* the extraction goes on from entry k: it suspends in async('blob') of the
\* next PDF entry, or returns pdfFiles to handleFiles (lines 55-63, 85-106)
NextEntry(r, entries, k, pdfFiles) ==
    LET n == NextPdfEntry(entries, k)
        run == runs[r]
    IN  IF n # 0
        THEN /\ runs' = [runs EXCEPT ![r] =
                    Run("entry", run.fileList, run.i, run.processedFiles,
                        entries, n, pdfFiles)]
             /\ UNCHANGED <<files, isProcessing, uploadedZipName, zipVars,
                            nEdits, harnessVars>>
        ELSE NextInput(r, ItemsOfExtraction(run.fileList[run.i], pdfFiles))

\* lines 52, 64-66, 108-115: loadAsync rejects
LoadRejected(r) ==
    /\ runs[r].pc = "load"
    /\ ~loadAsync(runs[r].fileList[runs[r].i].bytes).ok
    /\ NextInput(r, <<ArchiveError(runs[r].fileList[runs[r].i], ErrZip)>>)

\* lines 52-55: loadAsync resolves
LoadResolved(r) ==
    /\ runs[r].pc = "load"
    /\ loadAsync(runs[r].fileList[runs[r].i].bytes).ok
    /\ NextEntry(r, loadAsync(runs[r].fileList[runs[r].i].bytes).files, 1, <<>>)

\* a rejection that keeps the entries read before it
EntryRejectedKeepsEntries(r) ==
    /\ runs[r].pc = "entry"
    /\ ~runs[r].entries[runs[r].k].ok
    /\ NextInput(r, ItemsOfPdfFiles(runs[r].pdfFiles)
                        \o <<ArchiveError(runs[r].fileList[runs[r].i], ErrZip)>>)

\* lines 57, 64-66, 108-115: async('blob') rejects
EntryRejected(r) ==
    /\ runs[r].pc = "entry"
    /\ ~runs[r].entries[runs[r].k].ok
    /\ NextInput(r, <<ArchiveError(runs[r].fileList[runs[r].i], ErrZip)>>)

\* lines 57-59: async('blob') resolves
EntryResolved(r) ==
    LET run == runs[r]
        entry == run.entries[run.k]
    IN  /\ run.pc = "entry"
        /\ entry.ok
        /\ NextEntry(r, run.entries, run.k + 1,
                     Append(run.pdfFiles, File(entry.name, PdfType, entry.bytes)))

----------------------------------------------------------------------------
(* downloadAllAsZip, from its call or a resumption to its next await *)

DefaultZipName ==
    <<"b","A","V","-","A","n","g","e","b","o","t",".","z","i","p">>

\* a selection of every item
AllFiles(fs) == fs

\* a selection by the other status
FailedFiles(fs) == SelectSeq(fs, LAMBDA f : f.status = "error")

\* line 175
SuccessfulFiles(fs) == SelectSeq(fs, LAMBDA f : f.status = "processed")

\* an archive in which the first data under a name stays
ZipFileKeepFirst(zip, name, data) ==
    IF \E n \in 1..Len(zip) : zip[n].name = name
    THEN zip
    ELSE Append(zip, [name |-> name, data |-> data])

\* line 186, zip.file(name, data): a name already in the archive keeps its
\* place and gets the new data, a new name is added at the end
ZipFile(zip, name, data) ==
    IF \E n \in 1..Len(zip) : zip[n].name = name
    THEN [n \in 1..Len(zip) |->
            IF zip[n].name = name THEN [name |-> name, data |-> data]
            ELSE zip[n]]
    ELSE Append(zip, [name |-> name, data |-> data])

\* a file name that is always the default one
ZipFileNameAlwaysDefault(zipName) == DefaultZipName

\* lines 193-196
ZipFileName(zipName) ==
    IF zipName # <<>> THEN zipName \o DotZip ELSE DefaultZipName

\* lines 175-176: a call that finds nothing to package returns at once
DownloadNothing ==
    /\ ~isCreatingZip
    /\ OpsSoFar < MaxOps
    /\ Len(SuccessfulFiles(files)) = 0
    /\ zipTask' = [IdleZipTask EXCEPT !.calls = zipTask.calls + 1,
                                      !.files = files,
                                      !.ret = "early"]
    /\ UNCHANGED <<files, isProcessing, isCreatingZip, uploadedZipName, runs,
                   nEdits, harnessVars>>

\* lines 175-185: a call that suspends in the first arrayBuffer()
DownloadStart ==
    /\ ~isCreatingZip
    /\ OpsSoFar < MaxOps
    /\ Len(SuccessfulFiles(files)) # 0
    /\ isCreatingZip' = TRUE
    /\ zipTask' = [IdleZipTask EXCEPT !.pc = "read",
                                      !.calls = zipTask.calls + 1,
                                      !.files = files,
                                      !.successfulFiles = SuccessfulFiles(files),
                                      !.j = 1,
                                      !.zipName = uploadedZipName]
    /\ UNCHANGED <<files, isProcessing, uploadedZipName, runs, nEdits,
                   harnessVars>>

\* a loop that files each content under the name the file came with
ReadResolvedOriginalName ==
    LET file == zipTask.successfulFiles[zipTask.j]
    IN  /\ zipTask.pc = "read"
        /\ zipTask' = [zipTask EXCEPT
                !.zip = ZipFile(zipTask.zip, file.originalName,
                                file.originalFile.bytes),
                !.j = zipTask.j + 1,
                !.pc = IF zipTask.j + 1 > Len(zipTask.successfulFiles)
                       THEN "generate" ELSE "read"]
        /\ UNCHANGED <<files, isProcessing, isCreatingZip, uploadedZipName,
                       runs, nEdits, harnessVars>>

\* lines 185-190: arrayBuffer() resolves; the file is added, and the loop
\* suspends in the next arrayBuffer() or in generateAsync
ReadResolved ==
    LET file == zipTask.successfulFiles[zipTask.j]
    IN  /\ zipTask.pc = "read"
        /\ zipTask' = [zipTask EXCEPT
                !.zip = ZipFile(zipTask.zip, file.newName, file.originalFile.bytes),
                !.j = zipTask.j + 1,
                !.pc = IF zipTask.j + 1 > Len(zipTask.successfulFiles)
                       THEN "generate" ELSE "read"]
        /\ UNCHANGED <<files, isProcessing, isCreatingZip, uploadedZipName,
                       runs, nEdits, harnessVars>>

\* lines 208-213: the catch and finally blocks
ZipCaught ==
    /\ zipTask' = [zipTask EXCEPT !.pc = "idle", !.ret = "caught",
                                  !.alerts = zipTask.alerts + 1]
    /\ isCreatingZip' = FALSE
    /\ UNCHANGED <<files, isProcessing, uploadedZipName, runs, nEdits,
                   harnessVars>>

\* line 185: arrayBuffer() rejects
ReadRejected ==
    /\ zipTask.pc = "read"
    /\ ZipCaught

\* line 190, zip.generateAsync({type: 'blob'}): the archive as one blob, for
\* each entry in order a record of a signature, the length of the name, the
\* characters of the name and the content, and an end record after the last
RECURSIVE generateAsync(_)
generateAsync(zip) ==
    IF zip = <<>> THEN <<"end">>
    ELSE <<"PK", Len(zip[1].name)>> \o zip[1].name \o <<zip[1].data>>
            \o generateAsync(Tail(zip))

\* line 52, zip.loadAsync read on a blob made by generateAsync: the entries
\* of the records up to the end record, as loadAsync gives them
RECURSIVE loadGenerated(_)
loadGenerated(blob) ==
    IF blob = <<>> \/ blob[1] # "PK" THEN <<>>
    ELSE LET n == blob[2]
         IN  <<ZipObject(SubSeq(blob, 3, 2 + n), FALSE, TRUE, blob[3 + n])>>
                \o loadGenerated(SubSeq(blob, 4 + n, Len(blob)))

\* a hand-over that names the archive by the archive name of the moment
GenerateResolvedCurrentName ==
    /\ zipTask.pc = "generate"
    /\ zipTask' = [zipTask EXCEPT
            !.pc = "idle", !.ret = "completed",
            !.download = <<[name |-> ZipFileName(uploadedZipName),
                            entries |-> zipTask.zip,
                            blob |-> generateAsync(zipTask.zip)]>>]
    /\ isCreatingZip' = FALSE
    /\ UNCHANGED <<files, isProcessing, uploadedZipName, runs, nEdits,
                   harnessVars>>

\* lines 190-206, 211-213: generateAsync resolves and the archive is handed
\* to the browser under its file name
GenerateResolved ==
    /\ zipTask.pc = "generate"
    /\ zipTask' = [zipTask EXCEPT
            !.pc = "idle", !.ret = "completed",
            !.download = <<[name |-> ZipFileName(zipTask.zipName),
                            entries |-> zipTask.zip,
                            blob |-> generateAsync(zipTask.zip)]>>]
    /\ isCreatingZip' = FALSE
    /\ UNCHANGED <<files, isProcessing, uploadedZipName, runs, nEdits,
                   harnessVars>>

\* line 190: generateAsync rejects
GenerateRejected ==
    /\ zipTask.pc = "generate"
    /\ ZipCaught

----------------------------------------------------------------------------
(* removeFile and clearAll *)

\* a removal that drops the item and all that follow it
RemoveFrom(prev, index) ==
    SubSeq(prev, 1, IF index < Len(prev) THEN index ELSE Len(prev))

\* line 217: prev.filter((_, i) => i !== index), index counted from 0
RemoveAt(prev, index) ==
    LET kept == {n \in 1..Len(prev) : n - 1 # index}
        F[n \in 0..Len(prev)] ==
            IF n = 0 THEN <<>>
            ELSE IF n \in kept THEN Append(F[n - 1], prev[n]) ELSE F[n - 1]
    IN  F[Len(prev)]

\* a removal that erases the archive name with the last item
RemoveFileClearsName(index) ==
    /\ OpsSoFar < MaxOps
    /\ nEdits' = nEdits + 1
    /\ files' = RemoveAt(files, index)
    /\ uploadedZipName' =
            IF RemoveAt(files, index) = <<>> THEN <<>> ELSE uploadedZipName
    /\ UNCHANGED <<isProcessing, runs, zipVars, harnessVars>>

\* lines 216-218: a call of removeFile
RemoveFile(index) ==
    /\ OpsSoFar < MaxOps
    /\ nEdits' = nEdits + 1
    /\ files' = RemoveAt(files, index)
    /\ UNCHANGED <<isProcessing, uploadedZipName, runs, zipVars, harnessVars>>

ClearAll ==
    /\ OpsSoFar < MaxOps
    /\ nEdits' = nEdits + 1
    /\ files' = <<>>
    /\ uploadedZipName' = <<>>
    /\ UNCHANGED <<isProcessing, runs, zipVars, harnessVars>>

----------------------------------------------------------------------------
(* The pipeline *)

Next ==
    \/ \E n \in 1..(MaxInputs - InputsSoFar) :
            \E fileList \in FileLists[n] : HandleFiles(fileList)
    \/ \E r \in 1..Len(runs) : LoadRejected(r)
    \/ \E r \in 1..Len(runs) : LoadResolved(r)
    \/ \E r \in 1..Len(runs) : EntryRejected(r)
    \/ \E r \in 1..Len(runs) : EntryResolved(r)
    \/ DownloadNothing
    \/ DownloadStart
    \/ ReadResolved
    \/ ReadRejected
    \/ GenerateResolved
    \/ GenerateRejected
    \/ \E index \in 0..Len(files) : RemoveFile(index)
    \/ ClearAll

Spec == Init /\ [][Next]_vars

----------------------------------------------------------------------------
(* The normalizer on its own: every name made of a body of up to MaxBody   *)
(* characters and one of the endings                                       *)

BodyChars == {"_", "1", ")", "a", "-"}

Endings ==
    { <<>>,
      <<".","p","d","f">>,
      <<".","p","d","f",".","P","d","f">>,
      <<".","p","d","f","_">>,
      <<"ß",".","p","D","f">>,
      <<"1",")",".","P","D","F">>,
      <<"_","1",")",".","P","D","F">> }

RECURSIVE BodiesOfLen(_)
BodiesOfLen(n) ==
    IF n = 0 THEN {<<>>}
    ELSE {Append(b, c) : b \in BodiesOfLen(n - 1), c \in BodyChars}

HarnessNames ==
    {b \o e : b \in UNION {BodiesOfLen(n) : n \in 0..MaxBody}, e \in Endings}

InitN ==
    /\ files = <<>>
    /\ isProcessing = FALSE
    /\ isCreatingZip = FALSE
    /\ uploadedZipName = <<>>
    /\ runs = <<>>
    /\ zipTask = IdleZipTask
    /\ nEdits = 0
    /\ nFileName \in HarnessNames
    /\ nResult = NotRun

Normalize ==
    /\ nResult = NotRun
    /\ nResult' = processFileName(nFileName)
    /\ UNCHANGED <<files, isProcessing, isCreatingZip, uploadedZipName, runs,
                   zipTask, nEdits, nFileName>>

NextN == Normalize

SpecN == InitN /\ [][NextN]_vars

----------------------------------------------------------------------------
(* Properties of the normalizer (checked under SpecN) *)

CountChar(s, c) == Cardinality({i \in 1..Len(s) : s[i] = c})

\* the name with one trailing ".pdf", in any case, taken off
WithoutPdf(s) ==
    IF endsWith(toLowerCase(s), DotPdf) THEN SubSeq(s, 1, Len(s) - 4) ELSE s

\* the text that follows the n-th underscore of s
AfterUnderscore(s, n) ==
    LET p == CHOOSE q \in 1..Len(s) :
                s[q] = "_" /\ Cardinality({i \in 1..q : s[i] = "_"}) = n
    IN  SubSeq(s, p + 1, Len(s))

Candidate(s) == AfterUnderscore(WithoutPdf(s), 4)

Letters ==
    {"a","b","c","d","e","f","g","h","i","j","k","l","m","n","o","p","q",
     "r","s","t","u","v","w","x","y","z",
     "A","B","C","D","E","F","G","H","I","J","K","L","M","N","O","P","Q",
     "R","S","T","U","V","W","X","Y","Z",
     "ä","ö","ü","Ä","Ö","Ü","ß"}

\* s begins with one or more digits immediately followed by ")"
BeginsWithNumbering(s) ==
    \E n \in 1..Len(s) :
        /\ n + 1 <= Len(s)
        /\ \A i \in 1..n : s[i] \in {"0","1","2","3","4","5","6","7","8","9"}
        /\ s[n + 1] = ")"

BeginsWithLetter(s) == Len(s) >= 1 /\ s[1] \in Letters

Normalized == nResult.error # "not run"

\* C1: an accepted filename is renamed to the text after its 4th underscore
\* (one trailing ".pdf" of any case taken off, further underscores kept)
\* followed by ".pdf" in lower case.
C1_AcceptedName ==
    nResult.error = NoError =>
        nResult.newName = Candidate(nFileName) \o <<".","p","d","f">>

\* an accepted name with an upper-case extension and an underscore after
\* the fourth one
C1_Witness ==
    /\ nResult.error = NoError
    /\ CountChar(nFileName, "_") >= 5
    /\ endsWith(nFileName, <<".","P","D","F">>)
    /\ CountChar(nResult.newName, "_") >= 1

\* C2: a filename with fewer than 4 underscores (after a trailing ".pdf" is
\* taken off) is rejected as having too few separators and keeps its name.
C2_TooFewSeparators ==
    (Normalized /\ CountChar(WithoutPdf(nFileName), "_") < 4) =>
        /\ nResult.error = ErrTooFew
        /\ nResult.newName = nFileName

\* a rejected name with exactly 3 underscores and an extension
C2_Witness ==
    /\ Normalized
    /\ CountChar(WithoutPdf(nFileName), "_") = 3
    /\ WithoutPdf(nFileName) # nFileName
    /\ nResult.error = ErrTooFew

\* C3: with at least 4 underscores the verdict depends on the candidate
\* alone: "empty result" iff it is empty; otherwise "unexpected format" iff
\* it begins neither with digits followed by ")" nor with a letter;
\* otherwise accepted.
C3_Verdict ==
    (Normalized /\ CountChar(WithoutPdf(nFileName), "_") >= 4) =>
        LET c == Candidate(nFileName)
        IN  /\ (nResult.error = ErrEmpty) <=> (c = <<>>)
            /\ c # <<>> =>
                ((nResult.error = ErrFormat) <=>
                    (~BeginsWithNumbering(c) /\ ~BeginsWithLetter(c)))
            /\ (nResult.error = NoError) <=>
                (c # <<>> /\ (BeginsWithNumbering(c) \/ BeginsWithLetter(c)))
            /\ nResult.error \in {ErrEmpty, ErrFormat, NoError}

\* a candidate that begins with a digit and is rejected for its format
C3_Witness ==
    /\ Normalized
    /\ CountChar(WithoutPdf(nFileName), "_") >= 4
    /\ Candidate(nFileName) # <<>>
    /\ Candidate(nFileName)[1] = "1"
    /\ nResult.error = ErrFormat

----------------------------------------------------------------------------
(* Properties of the upload pipeline (checked under Spec) *)

IsArchive(file) == endsWith(toLowerCase(file.name), <<".","z","i","p">>)

IsLoosePdf(file) ==
    /\ ~IsArchive(file)
    /\ \/ file.type = "application/pdf"
       \/ endsWith(toLowerCase(file.name), <<".","p","d","f">>)

EndsInPdf(name) == endsWith(toLowerCase(name), <<".","p","d","f">>)

\* the contents an item of this input can have: the input's own, or that
\* of an entry of the archive it is
BytesOf(file) ==
    {file.bytes} \cup
        IF IsArchive(file)
        THEN {loadAsync(file.bytes).files[n].bytes :
                n \in 1..Len(loadAsync(file.bytes).files)}
        ELSE {}

ItemsFrom(items, file) ==
    SelectSeq(items, LAMBDA it : it.originalFile.bytes \in BytesOf(file))

\* the entries of the archive that are files whose name ends in ".pdf"
PdfEntries(file) ==
    SelectSeq(loadAsync(file.bytes).files,
              LAMBDA e : ~e.dir /\ EndsInPdf(e.name))

\* loading the archive or reading one of those entries fails
ExtractionFails(file) ==
    \/ ~loadAsync(file.bytes).ok
    \/ \E n \in 1..Len(PdfEntries(file)) : ~PdfEntries(file)[n].ok

BaseName(file) == SubSeq(file.name, 1, Len(file.name) - 4)

Done(r) == runs[r].pc = "done"

\* in this step invocation r reaches an archive input
Encounters(r) ==
    /\ runs'[r].pc = "load"
    /\ (r > Len(runs) \/ runs[r].i # runs'[r].i)

\* in this step invocation r appends its items
Completes(r) ==
    /\ runs'[r].pc = "done"
    /\ (r > Len(runs) \/ runs[r].pc # "done")

\* the items this step added at the end of the Batch
Appended == SubSeq(files', Len(files) + 1, Len(files'))

\* C4 as stated: once an archive name is recorded, no later archive (of the
\* same or a later submission) replaces it as long as nothing is cleared.
C4_FirstArchiveWins ==
    [][(uploadedZipName # <<>> /\ nEdits' = nEdits)
            => uploadedZipName' = uploadedZipName]_vars

\* C4 amended: every archive input a submission reaches sets the recorded
\* name to its own base name, replacing the one recorded before; between
\* two archives (and without clearAll) the name does not change.  So the
\* name is that of the archive reached last.
C4_LastArchiveWins ==
    [][/\ \A r \in 1..Len(runs') :
            Encounters(r) =>
                uploadedZipName' = BaseName(runs'[r].fileList[runs'[r].i])
       /\ ((\A r \in 1..Len(runs') : ~Encounters(r)) /\ nEdits' = nEdits)
            => uploadedZipName' = uploadedZipName]_vars

\* one submission with two archives has ended, and the name is the second's
C4_Witness ==
    /\ Len(runs) = 1
    /\ nEdits = 0
    /\ Done(1)
    /\ \E i, j \in 1..Len(runs[1].fileList) :
        /\ i < j
        /\ IsArchive(runs[1].fileList[i])
        /\ IsArchive(runs[1].fileList[j])
        /\ \A h \in (j + 1)..Len(runs[1].fileList) : ~IsArchive(runs[1].fileList[h])
        /\ uploadedZipName = BaseName(runs[1].fileList[j])
        /\ uploadedZipName # BaseName(runs[1].fileList[i])

InputIndex(fileList, item) ==
    CHOOSE i \in 1..Len(fileList) : item.originalFile.bytes \in BytesOf(fileList[i])

\* C5: the items a submission appends come in the order of its inputs (all
\* items of input i before those of input i+1), after the items that were
\* in the Batch, which stay as they were.
C5_InputOrder ==
    [][\A r \in 1..Len(runs') :
        Completes(r) =>
            LET fileList == runs'[r].fileList
            IN  /\ Len(files') >= Len(files)
                /\ SubSeq(files', 1, Len(files)) = files
                /\ \A p \in 1..Len(Appended) :
                    \E i \in 1..Len(fileList) :
                        Appended[p].originalFile.bytes \in BytesOf(fileList[i])
                /\ \A p, q \in 1..Len(Appended) :
                    p < q => InputIndex(fileList, Appended[p])
                                <= InputIndex(fileList, Appended[q])]_vars

\* a second submission of two inputs, an item from each, was appended to
\* the items of the first
C5_Witness ==
    /\ Len(runs) = 2
    /\ Done(1) /\ Done(2)
    /\ runs[1].processedFiles # <<>>
    /\ Len(runs[2].fileList) = 2
    /\ ItemsFrom(runs[2].processedFiles, runs[2].fileList[1]) # <<>>
    /\ ItemsFrom(runs[2].processedFiles, runs[2].fileList[2]) # <<>>
    /\ files = runs[1].processedFiles \o runs[2].processedFiles

\* C6: an archive whose extraction fails (at load or at an entry) gets one
\* Rejected item, named as the archive, and none for its entries; the other
\* inputs of the submission get their items all the same.
C6_FailedArchive ==
    [][\A r \in 1..Len(runs') :
        Completes(r) =>
            LET fileList == runs'[r].fileList
            IN  \A i \in 1..Len(fileList) :
                    (IsArchive(fileList[i]) /\ ExtractionFails(fileList[i])) =>
                        /\ Len(ItemsFrom(Appended, fileList[i])) = 1
                        /\ ItemsFrom(Appended, fileList[i])[1].status = "error"
                        /\ ItemsFrom(Appended, fileList[i])[1].originalName
                                = fileList[i].name
                        /\ ItemsFrom(Appended, fileList[i])[1].originalFile
                                = fileList[i]
                        /\ \A j \in 1..Len(fileList) :
                            (j # i /\ (IsArchive(fileList[j]) \/ IsLoosePdf(fileList[j])))
                                => ItemsFrom(Appended, fileList[j]) # <<>>]_vars

\* a submission has ended in which an archive failed at its second PDF
\* entry and the input after it got its item
C6_Witness ==
    \E r \in 1..Len(runs) :
        /\ Done(r)
        /\ \E i, j \in 1..Len(runs[r].fileList) :
            /\ i < j
            /\ IsArchive(runs[r].fileList[i])
            /\ loadAsync(runs[r].fileList[i].bytes).ok
            /\ ExtractionFails(runs[r].fileList[i])
            /\ PdfEntries(runs[r].fileList[i])[1].ok
            /\ Len(ItemsFrom(files, runs[r].fileList[i])) = 1
            /\ ItemsFrom(files, runs[r].fileList[j]) # <<>>

\* C7: a readable archive without any entry whose name ends in ".pdf" (in
\* any case) gets exactly one item: Rejected, "no PDF entries found".
C7_NoPdfEntries ==
    [][\A r \in 1..Len(runs') :
        Completes(r) =>
            LET fileList == runs'[r].fileList
            IN  \A i \in 1..Len(fileList) :
                    (/\ IsArchive(fileList[i])
                     /\ loadAsync(fileList[i].bytes).ok
                     /\ \A n \in 1..Len(loadAsync(fileList[i].bytes).files) :
                            ~EndsInPdf(loadAsync(fileList[i].bytes).files[n].name))
                    =>  /\ Len(ItemsFrom(Appended, fileList[i])) = 1
                        /\ ItemsFrom(Appended, fileList[i])[1].status = "error"
                        /\ ItemsFrom(Appended, fileList[i])[1].errorMessage
                                = "Keine PDF-Dateien in der ZIP-Datei gefunden"
                        /\ ItemsFrom(Appended, fileList[i])[1].originalFile
                                = fileList[i]]_vars

\* the Batch holds the one item of such an archive
C7_Witness ==
    \E r \in 1..Len(runs) :
        /\ Done(r)
        /\ \E i \in 1..Len(runs[r].fileList) :
            /\ IsArchive(runs[r].fileList[i])
            /\ loadAsync(runs[r].fileList[i].bytes).ok
            /\ loadAsync(runs[r].fileList[i].bytes).files # <<>>
            /\ PdfEntries(runs[r].fileList[i]) = <<>>
            /\ Len(ItemsFrom(files, runs[r].fileList[i])) = 1

\* the item the Normalizer's verdict gives an entry
EntryItem(it, entry) ==
    LET verdict == processFileName(entry.name)
    IN  /\ it.originalName = entry.name
        /\ it.originalFile.bytes = entry.bytes
        /\ it.newName = verdict.newName
        /\ it.errorMessage = verdict.error
        /\ it.status = IF verdict.error = NoError THEN "processed" ELSE "error"

\* C8: a readable archive with at least one PDF entry gets one item per
\* PDF entry (a file whose name ends in ".pdf", any case), in the archive's
\* order, each with the Normalizer's verdict, and none for other entries.
C8_OneItemPerPdfEntry ==
    [][\A r \in 1..Len(runs') :
        Completes(r) =>
            LET fileList == runs'[r].fileList
            IN  \A i \in 1..Len(fileList) :
                    (/\ IsArchive(fileList[i])
                     /\ ~ExtractionFails(fileList[i])
                     /\ PdfEntries(fileList[i]) # <<>>)
                    =>  /\ Len(ItemsFrom(Appended, fileList[i]))
                                = Len(PdfEntries(fileList[i]))
                        /\ \A n \in 1..Len(PdfEntries(fileList[i])) :
                            EntryItem(ItemsFrom(Appended, fileList[i])[n],
                                      PdfEntries(fileList[i])[n])]_vars

\* the Batch holds the items of an archive with two PDF entries, a
\* directory and another file: one Renamed, one Rejected
C8_Witness ==
    \E r \in 1..Len(runs) :
        /\ Done(r)
        /\ \E i \in 1..Len(runs[r].fileList) :
            /\ IsArchive(runs[r].fileList[i])
            /\ ~ExtractionFails(runs[r].fileList[i])
            /\ Len(PdfEntries(runs[r].fileList[i])) = 2
            /\ Len(loadAsync(runs[r].fileList[i].bytes).files) > 2
            /\ Len(ItemsFrom(files, runs[r].fileList[i])) = 2
            /\ ItemsFrom(files, runs[r].fileList[i])[1].status = "processed"
            /\ ItemsFrom(files, runs[r].fileList[i])[2].status = "error"

----------------------------------------------------------------------------
(* Properties of the packaging (checked under Spec) *)

\* the first place in the Batch of a Renamed item with this new name
FirstRenamed(batch, name) ==
    CHOOSE n \in 1..Len(batch) :
        /\ batch[n].status = "processed" /\ batch[n].newName = name
        /\ \A m \in 1..(n - 1) :
            ~(batch[m].status = "processed" /\ batch[m].newName = name)

C10_ReportsNothingToPackage ==
    zipTask.ret = "early" => zipTask.alerts > 0

\* C10 amended: a call on an empty or all-Rejected Batch returns at once,
\* a silent no-op: no archive, no failure notice, nothing left running.
C10_SilentNoOp ==
    (/\ zipTask.calls > 0
     /\ \A n \in 1..Len(zipTask.files) : zipTask.files[n].status # "processed")
    =>  /\ zipTask.ret = "early"
        /\ zipTask.download = <<>>
        /\ zipTask.alerts = 0
        /\ zipTask.pc = "idle"

\* a call was made on a Batch of Rejected items only
C10_Witness ==
    /\ zipTask.ret = "early"
    /\ Len(zipTask.files) >= 1
    /\ zipTask.files = files

\* the entries read back from the archive that was handed out
Reextracted == loadGenerated(zipTask.download[1].blob)

\* a later Renamed item of the batch has the new name of item n
Shadowed(batch, n) ==
    \E m \in (n + 1)..Len(batch) :
        /\ batch[m].status = "processed"
        /\ batch[m].newName = batch[n].newName

\* C11 as stated: the archive, read back, has for each Renamed item of the
\* Batch an entry with the item's new name and the item's own content.
C11_RoundTrip ==
    zipTask.download # <<>> =>
        \A n \in 1..Len(zipTask.files) :
            zipTask.files[n].status = "processed" =>
                \E p \in 1..Len(Reextracted) :
                    /\ Reextracted[p].name = zipTask.files[n].newName
                    /\ Reextracted[p].bytes = zipTask.files[n].originalFile.bytes

\* C11 amended: the archive, read back, has for each Renamed item of the
\* Batch an entry with the item's new name; the entry has the item's own
\* content when no later Renamed item of the Batch has the same new name.
C11_RoundTripLastOfName ==
    zipTask.download # <<>> =>
        \A n \in 1..Len(zipTask.files) :
            zipTask.files[n].status = "processed" =>
                \E p \in 1..Len(Reextracted) :
                    /\ ~Reextracted[p].dir
                    /\ Reextracted[p].name = zipTask.files[n].newName
                    /\ ~Shadowed(zipTask.files, n) =>
                        Reextracted[p].bytes = zipTask.files[n].originalFile.bytes

\* an archive of two names was handed out and reads back as two entries;
\* one of the names was the new name of two items of different content
C11_Witness ==
    /\ zipTask.download # <<>>
    /\ Len(Reextracted) = 2
    /\ Reextracted[1].name # Reextracted[2].name
    /\ \E n \in 1..Len(zipTask.files) :
        /\ zipTask.files[n].status = "processed"
        /\ Shadowed(zipTask.files, n)
        /\ \A p \in 1..2 :
            Reextracted[p].bytes # zipTask.files[n].originalFile.bytes

\* C12: when two Renamed items of the Batch have the same new name, the
\* archive has exactly one entry under that name, with the content of the
\* later item (the last of that name); the name is the items' new name,
\* unaltered, and the packaging ends without a failure notice.
C12_LastWriteWins ==
    zipTask.download # <<>> =>
        LET entries == zipTask.download[1].entries
            batch == zipTask.files
        IN  \A m, n \in 1..Len(batch) :
                (/\ m < n
                 /\ batch[m].status = "processed"
                 /\ batch[n].status = "processed"
                 /\ batch[m].newName = batch[n].newName
                 /\ ~Shadowed(batch, n))
                =>  /\ Cardinality({p \in 1..Len(entries) :
                            entries[p].name = batch[n].newName}) = 1
                    /\ \A p \in 1..Len(entries) :
                        entries[p].name = batch[n].newName
                            => entries[p].data = batch[n].originalFile.bytes
                    /\ zipTask.alerts = 0
                    /\ zipTask.ret = "completed"

\* an archive was handed out for a Batch in which a loose PDF and, after
\* it, an entry of an archive got the same new name
C12_Witness ==
    /\ zipTask.download # <<>>
    /\ zipTask.ret = "completed"
    /\ \E m, n \in 1..Len(zipTask.files) :
        /\ m < n
        /\ zipTask.files[m].status = "processed"
        /\ zipTask.files[n].status = "processed"
        /\ zipTask.files[m].newName = zipTask.files[n].newName
        /\ zipTask.files[m].originalFile.bytes # zipTask.files[n].originalFile.bytes
        /\ zipTask.download[1].entries =
            <<[name |-> zipTask.files[n].newName,
               data |-> zipTask.files[n].originalFile.bytes]>>

\* this step is a call of downloadAllAsZip that goes on to package
PackagingStarts == zipTask'.calls = zipTask.calls + 1 /\ zipTask'.pc = "read"

\* this step hands an archive to the browser
ArchiveAppears == zipTask.download = <<>> /\ zipTask'.download # <<>>

\* the file name the claim gives an archive for a recorded base name
OutputName(baseName) ==
    IF baseName # <<>>
    THEN baseName \o <<".","z","i","p">>
    ELSE <<"b","A","V","-","A","n","g","e","b","o","t",".","z","i","p">>

\* C13: the archive is handed out under the name '{base name}.zip' when an
\* archive base name is recorded for the Batch at the call of
\* downloadAllAsZip, and under 'bAV-Angebot.zip' when none is (none was
\* ever recorded, or clearAll erased it).
C13_OutputName ==
    [][/\ PackagingStarts => zipTask'.zipName = uploadedZipName
       /\ ArchiveAppears =>
            zipTask'.download[1].name = OutputName(zipTask.zipName)]_vars

\* an archive was handed out as 'B.zip': the Batch had a Renamed loose PDF
\* and the recorded archive was 'B.ZIP'
C13_Witness ==
    /\ zipTask.download # <<>>
    /\ zipTask.download[1].name = <<"B",".","z","i","p">>
    /\ uploadedZipName = <<"B">>

\* an input that is neither an archive nor a loose PDF
Ignored(file) == ~IsArchive(file) /\ ~IsLoosePdf(file)

WithoutIgnored(fileList) == SelectSeq(fileList, LAMBDA f : ~Ignored(f))

\* C14: a submission appends no item for an input that is neither an
\* archive nor a loose PDF, and appends exactly the items that an earlier
\* submission of the same inputs without the ignored ones gave; a
\* submission of ignored inputs only leaves the Batch as it was; no
\* failure is reported.
C14_IgnoredInput ==
    [][\A r \in 1..Len(runs') :
        Completes(r) =>
            LET fileList == runs'[r].fileList
            IN  /\ \A i \in 1..Len(fileList) :
                    Ignored(fileList[i]) =>
                        ItemsFrom(Appended, fileList[i]) = <<>>
                /\ WithoutIgnored(fileList) = <<>> => files' = files
                /\ \A q \in 1..Len(runs) :
                    (/\ q # r
                     /\ Done(q)
                     /\ runs[q].fileList = WithoutIgnored(fileList))
                    => Appended = runs[q].processedFiles
                /\ zipTask'.alerts = zipTask.alerts]_vars

\* a submission of one input gave items, and then a submission of a text
\* file followed by the same input appended the same items again
C14_Witness ==
    /\ Len(runs) = 2
    /\ Done(1) /\ Done(2)
    /\ Len(runs[2].fileList) = 2
    /\ Ignored(runs[2].fileList[1])
    /\ runs[1].fileList = <<runs[2].fileList[2]>>
    /\ runs[1].processedFiles # <<>>
    /\ files = runs[1].processedFiles \o runs[1].processedFiles

\* C15: every Rejected item of the Batch, whether the Normalizer rejected
\* the name or the archive it stands for failed, has the original name as
\* its new name; every item is either Renamed, without a message, or
\* Rejected, with one.
C15_RejectedKeepsName ==
    \A n \in 1..Len(files) :
        /\ files[n].status \in {"processed", "error"}
        /\ files[n].status = "processed" <=> files[n].errorMessage = NoError
        /\ files[n].status = "error" =>
            /\ files[n].newName = files[n].originalName
            /\ files[n].originalName = files[n].originalFile.name

\* the Batch holds a PDF the Normalizer rejected and an item that stands
\* for a failed archive
C15_Witness ==
    /\ \E n \in 1..Len(files) :
        /\ files[n].status = "error"
        /\ ~IsArchive(files[n].originalFile)
        /\ files[n].newName = files[n].originalFile.name
    /\ \E n \in 1..Len(files) :
        /\ files[n].status = "error"
        /\ IsArchive(files[n].originalFile)
        /\ files[n].newName = files[n].originalFile.name

\* the list without its element at place n
Without(s, n) == SubSeq(s, 1, n - 1) \o SubSeq(s, n + 1, Len(s))

\* C16: a step leaves the Batch as it was, or is the append of a
\* submission (the old items stay in place, unchanged, and items are added
\* after them), or is a removeFile (one item goes, the others stay in
\* order, unchanged) or a clearAll (no item stays; a step that empties a
\* Batch of two or more items also erases the archive name, as clearAll
\* does).  No step of downloadAllAsZip changes the Batch.
C16_BatchFrame ==
    [][/\ \/ files' = files
          \/ /\ \E r \in 1..Len(runs') : Completes(r)
             /\ nEdits' = nEdits
             /\ Len(files') > Len(files)
             /\ SubSeq(files', 1, Len(files)) = files
          \/ /\ nEdits' = nEdits + 1
             /\ runs' = runs
             /\ \E n \in 1..Len(files) : files' = Without(files, n)
          \/ /\ nEdits' = nEdits + 1
             /\ runs' = runs
             /\ files' = <<>>
             /\ Len(files) > 1 => uploadedZipName' = <<>>
       /\ zipTask' # zipTask => files' = files]_vars

\* after a submission of at least two items and a call of downloadAllAsZip
\* that ended, one removeFile left the Batch one item shorter
C16_Witness ==
    /\ Len(runs) = 1
    /\ Done(1)
    /\ zipTask.calls = 1
    /\ zipTask.pc = "idle"
    /\ zipTask.files = runs[1].processedFiles
    /\ nEdits = 1
    /\ Len(files) >= 1
    /\ \E n \in 1..Len(zipTask.files) : files = Without(zipTask.files, n)

----------------------------------------------------------------------------
(* Properties of calls that overlap (checked under Spec) *)

\* C17: submissions append in the order they were started: a submission
\* has appended its items only if every submission started before it has
\* appended its own.
C17_StartOrder ==
    \A q, r \in 1..Len(runs) : (q < r /\ Done(r)) => Done(q)

\* C18: removeFile and clearAll take effect only when no submission is
\* between its start and its append.
C18_NoEditInFlight ==
    [][nEdits' # nEdits => \A r \in 1..Len(runs) : Done(r)]_vars

\* in this step invocation r is called or resumed
Moves(r) == r > Len(runs) \/ runs'[r] # runs[r]

\* C19: items enter the Batch only in the step in which a submission ends,
\* after all its inputs were processed, and that step puts all the items
\* of the submission, as one block, at the end of the Batch; a step of a
\* submission that does not end it leaves the Batch as it was, whatever
\* other submissions are in flight.
C19_AtomicAppend ==
    [][/\ \A r \in 1..Len(runs') :
            /\ Completes(r) =>
                /\ runs'[r].i > Len(runs'[r].fileList)
                /\ \A i \in 1..Len(runs'[r].fileList) :
                    ~Ignored(runs'[r].fileList[i]) =>
                        ItemsFrom(runs'[r].processedFiles,
                                  runs'[r].fileList[i]) # <<>>
                /\ files' = files \o runs'[r].processedFiles
            /\ (Moves(r) /\ ~Completes(r)) => files' = files
       /\ Len(files') > Len(files) => \E r \in 1..Len(runs') : Completes(r)]_vars

\* the second of two submissions has appended its items while the first,
\* started before it, is suspended with items of its own that are not in
\* the Batch
C19_Witness ==
    /\ Len(runs) = 2
    /\ ~Done(1)
    /\ runs[1].processedFiles # <<>>
    /\ Done(2)
    /\ runs[2].processedFiles # <<>>
    /\ files = runs[2].processedFiles

\* the entries of an archive of the Renamed items of a batch: one for each
\* new name, in the order the names first come in the batch, with the
\* content of the last item of the name
IsArchiveOf(entries, batch) ==
    /\ \A p \in 1..Len(entries) :
        \E n \in 1..Len(batch) :
            /\ batch[n].status = "processed"
            /\ ~Shadowed(batch, n)
            /\ entries[p].name = batch[n].newName
            /\ entries[p].data = batch[n].originalFile.bytes
    /\ \A n \in 1..Len(batch) :
        batch[n].status = "processed" =>
            \E p \in 1..Len(entries) : entries[p].name = batch[n].newName
    /\ \A p, q \in 1..Len(entries) :
        p < q => FirstRenamed(batch, entries[p].name)
                    < FirstRenamed(batch, entries[q].name)

\* C20: a call of downloadAllAsZip that packages takes the Batch and the
\* archive name as they are at the call and keeps them while it is
\* suspended, whatever appends, removals and clears happen meanwhile; the
\* archive it hands out has the entries and the name that this Batch and
\* this archive name give.
C20_AsAtInvocation ==
    [][/\ PackagingStarts =>
            /\ zipTask'.files = files
            /\ zipTask'.zipName = uploadedZipName
       /\ (zipTask.pc # "idle" /\ zipTask'.calls = zipTask.calls) =>
            /\ zipTask'.files = zipTask.files
            /\ zipTask'.zipName = zipTask.zipName
       /\ ArchiveAppears =>
            /\ IsArchiveOf(zipTask'.download[1].entries, zipTask.files)
            /\ zipTask'.download[1].name = OutputName(zipTask.zipName)
            /\ loadGenerated(zipTask'.download[1].blob) =
                [p \in 1..Len(zipTask'.download[1].entries) |->
                    ZipObject(zipTask'.download[1].entries[p].name, FALSE,
                              TRUE, zipTask'.download[1].entries[p].data)]]_vars

\* packaging is suspended in generateAsync with every item read, and the
\* Batch and the archive name were cleared since the call
C20_Witness ==
    /\ zipTask.pc = "generate"
    /\ zipTask.zip # <<>>
    /\ IsArchiveOf(zipTask.zip, zipTask.files)
    /\ zipTask.zipName # <<>>
    /\ files = <<>>
    /\ uploadedZipName = <<>>

----------------------------------------------------------------------------
(* Properties of removeFile (checked under Spec) *)

\* the item stems from an archive input of the list
FromArchive(item, fileList) ==
    \E i \in 1..Len(fileList) :
        /\ IsArchive(fileList[i])
        /\ item.originalFile.bytes \in BytesOf(fileList[i])

\* C21: a removeFile step with an index (counted from 0) of an item of the
\* Batch takes out that item and keeps the others, in their order; with an
\* index past the end it leaves the Batch as it was; in both cases the
\* archive name, the submissions and the packaging stay as they were.
C21_RemoveFrame ==
    [][\A index \in 0..Len(files) :
        RemoveFile(index) =>
            /\ index < Len(files) =>
                /\ Len(files') = Len(files) - 1
                /\ files' = Without(files, index + 1)
            /\ index >= Len(files) => files' = files
            /\ uploadedZipName' = uploadedZipName
            /\ runs' = runs
            /\ zipTask' = zipTask]_vars

\* one submission appended items of loose files and of an archive; the one
\* item of the archive was removed, items stay, and the archive name is
\* still recorded
C21_Witness ==
    /\ Len(runs) = 1
    /\ Done(1)
    /\ nEdits = 1
    /\ uploadedZipName # <<>>
    /\ files # <<>>
    /\ \A n \in 1..Len(files) : ~FromArchive(files[n], runs[1].fileList)
    /\ \E n \in 1..Len(runs[1].processedFiles) :
        /\ FromArchive(runs[1].processedFiles[n], runs[1].fileList)
        /\ files = Without(runs[1].processedFiles, n)

====
